---- MODULE Spec2Model ----
(***************************************************************************)
(* Model of the unit-creation engine `Creator` of src/src/creator.rs: the  *)
(* per-round candidate tables, the readiness check, unit production and    *)
(* the select loop of `Creator::create`, together with the environment     *)
(* that owns the other ends of its channels.                               *)
(***************************************************************************)
EXTENDS Integers, Sequences, FiniteSets, TLC

\* ------------------------------------------------------------------ bounds
\* largest node population drawn at construction
MaxN == 4
\* largest round carried by an observation; also the last round produced
MaxRound == 2
\* number of observations the environment sends in one run
MaxSent == 4
\* number of observations that may wait on the inbound channel at once
MaxQueue == 1
\* number of distinct hash values
NumHashes == 2

\* ------------------------------------------------------------------ values
\* Option::None of a NodeMap<Option<H>> slot; hashes are 1..NumHashes
None == 0
Hashes == 1..NumHashes
Rounds == 0..MaxRound

VARIABLES
    n_members,              \* Creator.n_members
    my_index,               \* Creator.node_id.my_index().unwrap()
    current_round,          \* Creator.current_round
    candidates_by_round,    \* Creator.candidates_by_round (round r at index r+1)
    n_candidates_by_round,  \* Creator.n_candidates_by_round (round r at index r+1)
    parents_rx,             \* observations queued on the inbound channel
    parents_closed,         \* every sender of the inbound channel was dropped
    new_units_tx,           \* units sent on the outbound channel, in order
    new_units_open,         \* the receiver of the outbound channel is alive
    exit,                   \* the oneshot cancellation signal has fired
    pc,                     \* position of `create`: start, select, delay, done
    n_received,             \* history: observations taken from the inbound channel
    observed,               \* history: the observations handed to add_unit
    created                 \* history: one record per create_unit call

vars == << n_members, my_index, current_round, candidates_by_round,
           n_candidates_by_round, parents_rx, parents_closed, new_units_tx,
           new_units_open, exit, pc, n_received, observed, created >>

\* the engine's own fields, as one record the operations work on
Self ==
    [ n_members |-> n_members,
      my_index |-> my_index,
      current_round |-> current_round,
      candidates_by_round |-> candidates_by_round,
      n_candidates_by_round |-> n_candidates_by_round,
      new_units_tx |-> new_units_tx ]

\* ------------------------------------------------------------------ helpers
\* NodeMap::new_with_len(n): n slots, all None
new_with_len(n) == [i \in 0..(n - 1) |-> None]

\* number of set slots of a node map
NumSet(map) == Cardinality({i \in DOMAIN map : map[i] # None})

\* the injected hashing function applied to the unit's identity
hashing(creator, round, parents) ==
    ((creator + round + NumSet(parents)) % NumHashes) + 1

\* PreUnit::new_from_parents
new_from_parents(creator, round, parents) ==
    [ creator |-> creator,
      round |-> round,
      parents |-> parents,
      hash |-> hashing(creator, round, parents) ]

\* ------------------------------------------------------------------ Creator
RECURSIVE init_round(_, _)
init_round(self, round) ==
    IF Len(self.candidates_by_round) <= round
    THEN init_round(
           [self EXCEPT
              !.candidates_by_round = Append(@, new_with_len(self.n_members)),
              !.n_candidates_by_round = Append(@, 0)],
           round)
    ELSE self

\* create_unit reading the candidate table of the round being produced
create_unit_wrong_round(self, open) ==
    LET round == self.current_round
        parents == IF round = 0
                   THEN new_with_len(self.n_members)
                   ELSE self.candidates_by_round[round + 1]
        new_preunit == new_from_parents(self.my_index, round, parents)
        sent == IF open
                THEN [self EXCEPT !.new_units_tx = Append(@, new_preunit)]
                ELSE self
        next == [sent EXCEPT !.current_round = @ + 1]
    IN  init_round(next, next.current_round)

\* create_unit that leaves current_round as it is
create_unit_no_increment(self, open) ==
    LET round == self.current_round
        parents == IF round = 0
                   THEN new_with_len(self.n_members)
                   ELSE self.candidates_by_round[(round - 1) + 1]
        new_preunit == new_from_parents(self.my_index, round, parents)
        sent == IF open
                THEN [self EXCEPT !.new_units_tx = Append(@, new_preunit)]
                ELSE self
    IN  init_round(sent, sent.current_round)

\* create_unit that advances current_round by two
create_unit_skip(self, open) ==
    LET round == self.current_round
        parents == IF round = 0
                   THEN new_with_len(self.n_members)
                   ELSE self.candidates_by_round[(round - 1) + 1]
        new_preunit == new_from_parents(self.my_index, round, parents)
        sent == IF open
                THEN [self EXCEPT !.new_units_tx = Append(@, new_preunit)]
                ELSE self
        next == [sent EXCEPT !.current_round = @ + 2]
    IN  init_round(next, next.current_round)

\* create_unit that emits the unit with an empty parent map
create_unit_empty_parents(self, open) ==
    LET round == self.current_round
        parents == new_with_len(self.n_members)
        new_preunit == new_from_parents(self.my_index, round, parents)
        sent == IF open
                THEN [self EXCEPT !.new_units_tx = Append(@, new_preunit)]
                ELSE self
        next == [sent EXCEPT !.current_round = @ + 1]
    IN  init_round(next, next.current_round)

\* create_unit that does not prepare the tables of the next round
create_unit_no_init(self, open) ==
    LET round == self.current_round
        parents == IF round = 0
                   THEN new_with_len(self.n_members)
                   ELSE self.candidates_by_round[(round - 1) + 1]
        new_preunit == new_from_parents(self.my_index, round, parents)
        sent == IF open
                THEN [self EXCEPT !.new_units_tx = Append(@, new_preunit)]
                ELSE self
    IN  [sent EXCEPT !.current_round = @ + 1]

\* create_unit that returns when the outbound send fails
create_unit_fail_returns(self, open) ==
    LET round == self.current_round
        parents == IF round = 0
                   THEN new_with_len(self.n_members)
                   ELSE self.candidates_by_round[(round - 1) + 1]
        new_preunit == new_from_parents(self.my_index, round, parents)
        next == [self EXCEPT !.new_units_tx = Append(@, new_preunit),
                             !.current_round = @ + 1]
    IN  IF open THEN init_round(next, next.current_round) ELSE self

\* create_unit; `open` tells whether the outbound send succeeds
create_unit(self, open) ==
    LET round == self.current_round
        parents == IF round = 0
                   THEN new_with_len(self.n_members)
                   ELSE self.candidates_by_round[(round - 1) + 1]
        new_preunit == new_from_parents(self.my_index, round, parents)
        sent == IF open
                THEN [self EXCEPT !.new_units_tx = Append(@, new_preunit)]
                ELSE self
        next == [sent EXCEPT !.current_round = @ + 1]
    IN  init_round(next, next.current_round)

\* add_unit without the test for units that are too old
add_unit_no_stale_check(self, round, pid, hash) ==
    LET s == init_round(self, round)
    IN  IF s.candidates_by_round[round + 1][pid] = None
        THEN [s EXCEPT
                !.candidates_by_round[round + 1][pid] = hash,
                !.n_candidates_by_round[round + 1] = @ + 1]
        ELSE s

\* add_unit that counts an observation whose slot is already set
add_unit_count_always(self, round, pid, hash) ==
    IF round + 1 >= self.current_round
    THEN LET s == init_round(self, round)
         IN  IF s.candidates_by_round[round + 1][pid] = None
             THEN [s EXCEPT
                     !.candidates_by_round[round + 1][pid] = hash,
                     !.n_candidates_by_round[round + 1] = @ + 1]
             ELSE [s EXCEPT !.n_candidates_by_round[round + 1] = @ + 1]
    ELSE self

\* add_unit that treats only rounds two or more behind as too old
add_unit_late_accepted(self, round, pid, hash) ==
    IF round + 2 >= self.current_round
    THEN LET s == init_round(self, round)
         IN  IF s.candidates_by_round[round + 1][pid] = None
             THEN [s EXCEPT
                     !.candidates_by_round[round + 1][pid] = hash,
                     !.n_candidates_by_round[round + 1] = @ + 1]
             ELSE s
    ELSE self

\* add_unit without the test for a slot that is already set
add_unit_overwrite(self, round, pid, hash) ==
    IF round + 1 >= self.current_round
    THEN LET s == init_round(self, round)
         IN  [s EXCEPT
                !.candidates_by_round[round + 1][pid] = hash,
                !.n_candidates_by_round[round + 1] = @ + 1]
    ELSE self

add_unit(self, round, pid, hash) ==
    IF round + 1 >= self.current_round
    THEN LET s == init_round(self, round)
         IN  IF s.candidates_by_round[round + 1][pid] = None
             THEN [s EXCEPT
                     !.candidates_by_round[round + 1][pid] = hash,
                     !.n_candidates_by_round[round + 1] = @ + 1]
             ELSE s
    ELSE self

\* check_ready comparing the count with >= in place of >
check_ready_ge(self) ==
    IF self.current_round = 0
    THEN TRUE
    ELSE LET prev_round == self.current_round - 1
             threshold == (self.n_members * 2) \div 3
         IN  /\ self.n_candidates_by_round[prev_round + 1] >= threshold
             /\ self.candidates_by_round[prev_round + 1][self.my_index] # None

check_ready(self) ==
    IF self.current_round = 0
    THEN TRUE
    ELSE LET prev_round == self.current_round - 1
             threshold == (self.n_members * 2) \div 3
         IN  /\ self.n_candidates_by_round[prev_round + 1] > threshold
             /\ self.candidates_by_round[prev_round + 1][self.my_index] # None

\* ------------------------------------------------------------------ state
\* Creator::new, for every population within the bounds; node indices are
\* interchangeable, the local node is taken to be the first or the last one
Init ==
    /\ n_members \in 1..MaxN
    /\ my_index \in {0, n_members - 1}
    /\ current_round = 0
    /\ candidates_by_round = << new_with_len(n_members) >>
    /\ n_candidates_by_round = << 0 >>
    /\ parents_rx = << >>
    /\ parents_closed = FALSE
    /\ new_units_tx = << >>
    /\ new_units_open = TRUE
    /\ exit = FALSE
    /\ pc = "start"
    /\ n_received = 0
    /\ observed = {}
    /\ created = << >>

\* the engine's fields take the values of record s
Store(s) ==
    /\ current_round' = s.current_round
    /\ candidates_by_round' = s.candidates_by_round
    /\ n_candidates_by_round' = s.n_candidates_by_round
    /\ new_units_tx' = s.new_units_tx

\* history record of a create_unit call made in engine state s
Call(s, received, trigger) ==
    [ round |-> s.current_round,
      count |-> IF s.current_round = 0 THEN 0
                ELSE s.n_candidates_by_round[s.current_round],
      own |-> IF s.current_round = 0 THEN None
              ELSE s.candidates_by_round[s.current_round][s.my_index],
      received |-> received,
      exit |-> exit,
      trigger |-> trigger ]

\* a `create` whose first unit waits for the loop
Start_no_create ==
    /\ pc = "start"
    /\ pc' = "select"
    /\ UNCHANGED << n_members, my_index, current_round, candidates_by_round,
                    n_candidates_by_round, parents_rx, parents_closed,
                    new_units_tx, new_units_open, exit, n_received, observed,
                    created >>

\* line 119: the unconditional create_unit before the loop
Start ==
    /\ pc = "start"
    /\ Store(create_unit(Self, new_units_open))
    /\ created' = Append(created, Call(Self, n_received, "start"))
    /\ pc' = "select"
    /\ UNCHANGED << n_members, my_index, parents_rx, parents_closed,
                    new_units_open, exit, n_received, observed >>

\* a receive branch that goes back to the select right after producing
RecvUnit_no_delay ==
    /\ pc = "select"
    /\ parents_rx # << >>
    /\ LET u == Head(parents_rx)
           s1 == add_unit(Self, u.round, u.creator, u.hash)
       IN  /\ check_ready(s1) => s1.current_round <= MaxRound
           /\ IF check_ready(s1)
              THEN /\ Store(create_unit(s1, new_units_open))
                   /\ created' = Append(created, Call(s1, n_received + 1, "recv"))
              ELSE /\ Store(s1)
                   /\ UNCHANGED created
           /\ observed' = observed \cup {u}
    /\ pc' = "select"
    /\ parents_rx' = Tail(parents_rx)
    /\ n_received' = n_received + 1
    /\ UNCHANGED << n_members, my_index, parents_closed, new_units_open, exit >>

\* a loop that is entered again after the exit branch
Selecting_no_break == pc \in {"select", "done"}

\* lines 121-122: `create` is suspended in the select of its loop
Selecting == pc = "select"

\* lines 123-129: the branch of the select that receives an observation
RecvUnit ==
    /\ Selecting
    /\ parents_rx # << >>
    /\ LET u == Head(parents_rx)
           s1 == add_unit(Self, u.round, u.creator, u.hash)
       IN  /\ check_ready(s1) => s1.current_round <= MaxRound
           /\ IF check_ready(s1)
              THEN /\ Store(create_unit(s1, new_units_open))
                   /\ created' = Append(created, Call(s1, n_received + 1, "recv"))
                   /\ pc' = "delay"
              ELSE /\ Store(s1)
                   /\ UNCHANGED << created, pc >>
           /\ observed' = observed \cup {u}
    /\ parents_rx' = Tail(parents_rx)
    /\ n_received' = n_received + 1
    /\ UNCHANGED << n_members, my_index, parents_closed, new_units_open, exit >>

\* line 127: delay_for(create_lag) elapses
DelayElapsed ==
    /\ pc = "delay"
    /\ pc' = "select"
    /\ UNCHANGED << n_members, my_index, current_round, candidates_by_round,
                    n_candidates_by_round, parents_rx, parents_closed,
                    new_units_tx, new_units_open, exit, n_received, observed,
                    created >>

\* an exit branch that is also polled during the pacing delay
ExitBranch_raced ==
    /\ pc \in {"select", "delay"}
    /\ exit
    /\ pc' = "done"
    /\ UNCHANGED << n_members, my_index, current_round, candidates_by_round,
                    n_candidates_by_round, parents_rx, parents_closed,
                    new_units_tx, new_units_open, exit, n_received, observed,
                    created >>

\* an exit branch that is also taken when the inbound stream is closed
ExitBranch_or_closed ==
    /\ pc = "select"
    /\ exit \/ (parents_closed /\ parents_rx = << >>)
    /\ pc' = "done"
    /\ UNCHANGED << n_members, my_index, current_round, candidates_by_round,
                    n_candidates_by_round, parents_rx, parents_closed,
                    new_units_tx, new_units_open, exit, n_received, observed,
                    created >>

\* an exit branch that does not leave the loop
ExitBranch_no_break ==
    /\ pc = "select"
    /\ exit
    /\ pc' = "select"
    /\ UNCHANGED << n_members, my_index, current_round, candidates_by_round,
                    n_candidates_by_round, parents_rx, parents_closed,
                    new_units_tx, new_units_open, exit, n_received, observed,
                    created >>

\* lines 130-133: the branch of the select that takes the exit signal
ExitBranch ==
    /\ Selecting
    /\ exit
    /\ pc' = "done"
    /\ UNCHANGED << n_members, my_index, current_round, candidates_by_round,
                    n_candidates_by_round, parents_rx, parents_closed,
                    new_units_tx, new_units_open, exit, n_received, observed,
                    created >>

\* ------------------------------------------------------------------ environment
\* a sender of the inbound channel sends an observation
SendUnit ==
    /\ ~parents_closed
    /\ n_received + Len(parents_rx) < MaxSent
    /\ Len(parents_rx) < MaxQueue
    /\ \E round \in Rounds, creator \in 0..(n_members - 1), hash \in Hashes :
          parents_rx' = Append(parents_rx,
                               [round |-> round, creator |-> creator, hash |-> hash])
    /\ UNCHANGED << n_members, my_index, current_round, candidates_by_round,
                    n_candidates_by_round, parents_closed, new_units_tx,
                    new_units_open, exit, pc, n_received, observed, created >>

\* the last sender of the inbound channel is dropped
CloseParents ==
    /\ ~parents_closed
    /\ parents_closed' = TRUE
    /\ UNCHANGED << n_members, my_index, current_round, candidates_by_round,
                    n_candidates_by_round, parents_rx, new_units_tx,
                    new_units_open, exit, pc, n_received, observed, created >>

\* the receiver of the outbound channel is dropped
DropReceiver ==
    /\ new_units_open
    /\ new_units_open' = FALSE
    /\ UNCHANGED << n_members, my_index, current_round, candidates_by_round,
                    n_candidates_by_round, parents_rx, parents_closed,
                    new_units_tx, exit, pc, n_received, observed, created >>

\* the cancellation signal fires (or its sender is dropped)
FireExit ==
    /\ ~exit
    /\ exit' = TRUE
    /\ UNCHANGED << n_members, my_index, current_round, candidates_by_round,
                    n_candidates_by_round, parents_rx, parents_closed,
                    new_units_tx, new_units_open, pc, n_received, observed,
                    created >>

\* the engine, the senders of observations and the cancellation signal
Next ==
    \/ Start
    \/ RecvUnit
    \/ DelayElapsed
    \/ ExitBranch
    \/ SendUnit
    \/ FireExit

Spec == Init /\ [][Next]_vars

\* the same, with the far ends of both channels free to go away
NextEnv ==
    \/ Next
    \/ CloseParents
    \/ DropReceiver

SpecEnv == Init /\ [][NextEnv]_vars

\* Next, with the receiver of the outbound channel free to go away
NextDrop ==
    \/ Next
    \/ DropReceiver

SpecDrop == Init /\ [][NextDrop]_vars

\* Next, with the senders of the inbound channel free to go away
NextClose ==
    \/ Next
    \/ CloseParents

SpecClose == Init /\ [][NextClose]_vars

\* Creator::new for the populations below the largest one
InitFair ==
    /\ Init
    /\ n_members < MaxN

\* the engine with the scheduling of its task: the task runs when it can,
\* the timer of the delay fires, and the select, which picks at random
\* among its ready branches, does not pass over the exit branch forever
FairSpec ==
    /\ InitFair
    /\ [][Next]_vars
    /\ WF_vars(Start)
    /\ WF_vars(DelayElapsed)
    /\ SF_vars(ExitBranch)

\* ------------------------------------------------------------------ properties
Threshold == (n_members * 2) \div 3

\* C1: every create_unit call for a round r > 0 is made in a state where the
\* round-(r-1) candidate count is strictly greater than floor(2N/3) and the
\* local node's own round-(r-1) slot is set.
C1_ProducedOnlyWhenReady ==
    \A k \in 1..Len(created) :
        created[k].round > 0 =>
            /\ created[k].count > Threshold
            /\ created[k].own # None

\* a round-1 unit was produced by a population whose quorum is smaller than N
C1_Witness ==
    /\ n_members = MaxN
    /\ Len(created) >= 2
    /\ created[2].round = 1
    /\ created[2].count = Threshold + 1

\* C2: every unit on the outbound channel with round r > 0 has more than
\* floor(2N/3) parents, has the local node's slot set, and each set slot i
\* holds the hash of an observed unit of creator i and round r-1.
C2_ParentsWellFormed ==
    \A k \in 1..Len(new_units_tx) :
        LET unit == new_units_tx[k]
        IN  unit.round > 0 =>
              /\ DOMAIN unit.parents = 0..(n_members - 1)
              /\ NumSet(unit.parents) > Threshold
              /\ unit.parents[my_index] # None
              /\ \A i \in DOMAIN unit.parents :
                    unit.parents[i] # None =>
                        [round |-> unit.round - 1, creator |-> i,
                         hash |-> unit.parents[i]] \in observed

\* a unit of round 1 went out with one slot of its parent map left unset
C2_Witness ==
    \E k \in 1..Len(new_units_tx) :
        /\ new_units_tx[k].round = 1
        /\ NumSet(new_units_tx[k].parents) = Threshold + 1
        /\ NumSet(new_units_tx[k].parents) < n_members

\* C3 as stated: once the cancellation signal has fired, no observation
\* handled afterwards leads to a create_unit call.
C3_CancellationLaw ==
    \A k \in 1..Len(created) :
        created[k].trigger = "recv" => ~created[k].exit

\* C3, amended: once the loop has taken the exit branch, no observation is
\* received and no create_unit call is made, whatever is queued.
C3_NothingAfterExitTaken ==
    [][pc = "done" =>
         /\ pc' = "done"
         /\ n_received' = n_received
         /\ created' = created
         /\ current_round' = current_round
         /\ candidates_by_round' = candidates_by_round
         /\ new_units_tx' = new_units_tx]_vars

\* the engine has terminated with an observation still queued that would
\* have completed the quorum of the previous round
C3_Witness ==
    /\ pc = "done"
    /\ parents_rx # << >>
    /\ ~check_ready(Self)
    /\ LET u == Head(parents_rx)
       IN  check_ready(add_unit(Self, u.round, u.creator, u.hash))

C5_ReadyNeverLeftWaiting ==
    pc = "select" => ~check_ready(Self)

\* C6: the first unit produced has round 0, the local node as creator and an
\* all-None parent map of length N, and it is produced and emitted before
\* any observation is received.
C6_FirstUnit ==
    /\ pc = "start" => (n_received = 0 /\ created = << >> /\ new_units_tx = << >>)
    /\ n_received > 0 => Len(created) >= 1
    /\ Len(created) >= 1 =>
          /\ created[1].round = 0
          /\ created[1].received = 0
          /\ created[1].trigger = "start"
          /\ Len(new_units_tx) >= 1
    /\ Len(new_units_tx) >= 1 =>
          /\ new_units_tx[1].round = 0
          /\ new_units_tx[1].creator = my_index
          /\ DOMAIN new_units_tx[1].parents = 0..(n_members - 1)
          /\ \A i \in 0..(n_members - 1) : new_units_tx[1].parents[i] = None

\* the round-0 unit is out while the first observation is still queued
C6_Witness ==
    /\ pc = "select"
    /\ n_received = 0
    /\ parents_rx # << >>
    /\ Len(new_units_tx) = 1
    /\ n_members = MaxN

\* C7: current_round equals the number of create_unit calls made so far, and
\* never decreases.
C7_Monotonic ==
    [][/\ current_round = Len(created)
       /\ current_round' = Len(created')
       /\ current_round' >= current_round]_vars

\* three units were produced
C7_Witness ==
    /\ Len(created) = 3
    /\ current_round = 3

\* C8: the rounds of the produced units, in production order, are 0, 1, 2, ...
C8_RoundsInOrder ==
    /\ \A k \in 1..Len(created) : created[k].round = k - 1
    /\ \A k \in 1..Len(new_units_tx) : new_units_tx[k].round = k - 1

\* the units of rounds 0, 1 and 2 are on the outbound channel
C8_Witness ==
    /\ Len(new_units_tx) = 3
    /\ new_units_tx[3].round = 2

\* C9: add_unit of an observation with round + 1 < current_round leaves the
\* candidate tables, the counts and the lengths of both sequences unchanged.
C9_StaleIgnored ==
    \A round \in Rounds, pid \in 0..(n_members - 1), hash \in Hashes :
        round + 1 < current_round =>
            LET s == add_unit(Self, round, pid, hash)
            IN  /\ s.candidates_by_round = candidates_by_round
                /\ s.n_candidates_by_round = n_candidates_by_round

\* a stale observation for a slot that was never set has been handled
C9_Witness ==
    \E u \in observed :
        /\ u.round + 1 < current_round
        /\ candidates_by_round[u.round + 1][u.creator] = None

\* C10: add_unit applied twice with the same (round, creator, hash) gives
\* the candidate tables and counts that one application gives.
C10_Idempotent ==
    \A round \in Rounds, pid \in 0..(n_members - 1), hash \in Hashes :
        LET once == add_unit(Self, round, pid, hash)
            twice == add_unit(once, round, pid, hash)
        IN  /\ twice.candidates_by_round = once.candidates_by_round
            /\ twice.n_candidates_by_round = once.n_candidates_by_round

\* the same observation was received twice and is counted once
C10_Witness ==
    /\ n_received = 2
    /\ Cardinality(observed) = 1
    /\ \E u \in observed :
          /\ candidates_by_round[u.round + 1][u.creator] = u.hash
          /\ n_candidates_by_round[u.round + 1] = 1

\* C11: a candidate slot that is set keeps its hash in every later state, and
\* add_unit of another hash for a set slot changes neither the table nor the
\* count of that round.
C11_FirstWriterWins ==
    [][/\ \A r \in 1..Len(candidates_by_round), i \in 0..(n_members - 1) :
             candidates_by_round[r][i] # None =>
                 candidates_by_round'[r][i] = candidates_by_round[r][i]
       /\ \A round \in Rounds, pid \in 0..(n_members - 1), hash \in Hashes :
             (/\ round < Len(candidates_by_round)
              /\ candidates_by_round[round + 1][pid] # None) =>
                 LET s == add_unit(Self, round, pid, hash)
                 IN  /\ s.candidates_by_round[round + 1]
                          = candidates_by_round[round + 1]
                     /\ s.n_candidates_by_round[round + 1]
                          = n_candidates_by_round[round + 1]]_vars

\* two hashes were observed for one slot of a round that is not too old,
\* and the slot holds the other one
C11_Witness ==
    \E u \in observed :
        /\ u.round + 1 >= current_round
        /\ candidates_by_round[u.round + 1][u.creator] \notin {None, u.hash}
        /\ n_candidates_by_round[u.round + 1] = 1

\* C12: a production made in the loop puts the engine in the pacing delay,
\* the production before the loop does not, and while the delay lasts no
\* observation is received and no unit is produced.
C12_Pacing ==
    [][/\ Len(created') > Len(created) =>
             IF created'[Len(created')].trigger = "recv"
             THEN pc' = "delay"
             ELSE pc' = "select"
       /\ pc = "delay" =>
             /\ n_received' = n_received
             /\ created' = created
             /\ new_units_tx' = new_units_tx
             /\ candidates_by_round' = candidates_by_round]_vars

\* the engine is in the pacing delay, ready for the next round, with an
\* observation waiting
C12_Witness ==
    /\ pc = "delay"
    /\ check_ready(Self)
    /\ current_round <= MaxRound
    /\ parents_rx # << >>

\* C13: a unit of round r > 0 is emitted with the round-(r-1) candidate table
\* of that instant as its parent map, and no later step alters a unit that
\* was emitted.
C13_ParentsAreSnapshot ==
    [][/\ \A k \in 1..Len(new_units_tx) :
             /\ k <= Len(new_units_tx')
             /\ new_units_tx'[k] = new_units_tx[k]
       /\ \A k \in (Len(new_units_tx) + 1)..Len(new_units_tx') :
             new_units_tx'[k].round > 0 =>
                 new_units_tx'[k].parents
                     = candidates_by_round'[new_units_tx'[k].round]]_vars

\* a round-0 unit was observed whose creator is no parent of the round-1
\* unit that is already out
C13_Witness ==
    /\ Len(new_units_tx) >= 2
    /\ \E u \in observed :
          /\ u.round = 0
          /\ new_units_tx[2].parents[u.creator] = None

\* C15: both sequences have the same length, longer than current_round, the
\* length never decreases, and every table has exactly N slots.
C15_TablesCoverRounds ==
    [][/\ Len(candidates_by_round) = Len(n_candidates_by_round)
       /\ Len(candidates_by_round) > current_round
       /\ Len(candidates_by_round') = Len(n_candidates_by_round')
       /\ Len(candidates_by_round') > current_round'
       /\ Len(candidates_by_round') >= Len(candidates_by_round)
       /\ \A r \in 1..Len(candidates_by_round') :
             DOMAIN candidates_by_round'[r] = 0..(n_members - 1)]_vars

\* an observation of a later round has extended the tables beyond the one
\* create_unit prepared
C15_Witness ==
    /\ current_round = 1
    /\ Len(candidates_by_round) = MaxRound + 1
    /\ n_candidates_by_round[MaxRound + 1] = 1

\* C16: every count equals the number of set slots of its table, and is at
\* most N.
C16_CountMatchesTable ==
    /\ Len(n_candidates_by_round) = Len(candidates_by_round)
    /\ \A r \in 1..Len(candidates_by_round) :
          /\ n_candidates_by_round[r] = NumSet(candidates_by_round[r])
          /\ n_candidates_by_round[r] <= n_members

\* a table is full, and an observation for one of its slots was dropped
C16_Witness ==
    /\ n_members >= 2
    /\ \E r \in 1..Len(candidates_by_round) :
          /\ n_candidates_by_round[r] = n_members
          /\ \E u \in observed :
                /\ u.round + 1 = r
                /\ candidates_by_round[r][u.creator] # u.hash

\* C19: the own-creator parent slot of every emitted unit of round r > 0 holds
\* the hash of the unit the engine emitted for round r-1.
C19_OwnParentIsOwnUnit ==
    \A k \in 2..Len(new_units_tx) :
        new_units_tx[k].parents[my_index] = new_units_tx[k - 1].hash

\* C20: the table and count of a round q with q + 1 < current_round never
\* change, and the round-(r-1) table equals the parent map of every emitted
\* unit of round r > 0.
C20_ConsumedRoundsFrozen ==
    [][/\ \A q \in 0..(current_round - 2) :
             /\ candidates_by_round'[q + 1] = candidates_by_round[q + 1]
             /\ n_candidates_by_round'[q + 1] = n_candidates_by_round[q + 1]
       /\ \A k \in 1..Len(new_units_tx') :
             new_units_tx'[k].round > 0 =>
                 candidates_by_round'[new_units_tx'[k].round]
                     = new_units_tx'[k].parents]_vars

\* two rounds are consumed and an observation for a slot of the first one,
\* which is not the hash that slot holds, was handled
C20_Witness ==
    /\ current_round = 3
    /\ Len(new_units_tx) = 3
    /\ candidates_by_round[1] = new_units_tx[2].parents
    /\ \E u \in observed :
          /\ u.round = 0
          /\ candidates_by_round[1][u.creator] # u.hash

\* C14: a create_unit call whose send fails leaves the engine in the state a
\* successful send leaves it in (current_round one higher, tables prepared
\* for it and otherwise as they were), nothing is emitted, and the loop
\* goes on.
C14_SendFailureIsNotFatal ==
    [][(Len(created') > Len(created) /\ ~new_units_open) =>
         LET s == IF pc = "start"
                  THEN Self
                  ELSE add_unit(Self, Head(parents_rx).round,
                                Head(parents_rx).creator, Head(parents_rx).hash)
             sent == create_unit(s, TRUE)
         IN  /\ current_round' = current_round + 1
             /\ current_round' = sent.current_round
             /\ candidates_by_round' = sent.candidates_by_round
             /\ n_candidates_by_round' = sent.n_candidates_by_round
             /\ Len(candidates_by_round') > current_round'
             /\ \A r \in 1..Len(s.candidates_by_round) :
                   candidates_by_round'[r] = s.candidates_by_round[r]
             /\ new_units_tx' = new_units_tx
             /\ pc' \in {"select", "delay"}]_vars

\* two productions failed to be sent, and the engine is back in the select
C14_Witness ==
    /\ ~new_units_open
    /\ Len(created) >= Len(new_units_tx) + 2
    /\ created[Len(created)].trigger = "recv"
    /\ pc = "select"

\* a step of `create` that leaves the loop
LoopExits ==
    /\ Start \/ RecvUnit \/ DelayElapsed \/ ExitBranch
    /\ pc' = "done"

\* C17 as stated: with the inbound stream closed and drained and no
\* cancellation signal received, the loop can exit.
C17_ExitsOnClose ==
    (pc = "select" /\ parents_closed /\ parents_rx = << >> /\ ~exit)
        => ENABLED LoopExits

\* C17, amended: a closed inbound stream only disables the receive branch;
\* the loop stays suspended in the select with its state unchanged until the
\* cancellation signal arrives, and leaves only through the exit branch.
C17_ClosedStreamKeepsWaiting ==
    [][/\ (pc # "done" /\ pc' = "done") => (exit /\ pc = "select")
       /\ (pc = "select" /\ parents_closed /\ parents_rx = << >> /\ ~exit) =>
             /\ pc' = "select"
             /\ current_round' = current_round
             /\ candidates_by_round' = candidates_by_round
             /\ n_received' = n_received
             /\ created' = created]_vars

\* the stream is closed and drained after an observation was handled, no
\* signal has fired, and the engine sits in the select
C17_Witness ==
    /\ pc = "select"
    /\ parents_closed
    /\ parents_rx = << >>
    /\ ~exit
    /\ n_received >= 1

\* C18: once the cancellation signal has fired the engine eventually
\* terminates, and once terminated its round, tables and outbound channel
\* never change.
C18_Terminates ==
    /\ exit ~> (pc = "done")
    /\ [][pc = "done" =>
            /\ pc' = "done"
            /\ current_round' = current_round
            /\ candidates_by_round' = candidates_by_round
            /\ n_candidates_by_round' = n_candidates_by_round
            /\ new_units_tx' = new_units_tx]_vars

\* the engine has terminated after handling an observation that was
\* received when the signal had fired, with another one left queued
C18_Witness ==
    /\ pc = "done"
    /\ parents_rx # << >>
    /\ Len(created) >= 2
    /\ created[Len(created)].exit

====
